---------------------------- MODULE Spec2Model ----------------------------
(***************************************************************************)
(* Model of viewer.py: the transcript parser (parse_sessions) and the      *)
(* view-model of the interactive browser (HistoryViewer).                  *)
(*                                                                         *)
(* Texts are sequences of one-character strings.  File names are sequences *)
(* of character codes, so that sorted() can be modelled as the             *)
(* lexicographic comparison Python performs.                               *)
(*                                                                         *)
(* Three specifications share the variables:                               *)
(*   Spec       the event handlers of HistoryViewer over a parsed          *)
(*              collection;                                                *)
(*   ParseSpec  parse_sessions reading a directory line by line;           *)
(*   MainSpec   main, from the command line to the running viewer.         *)
(***************************************************************************)
EXTENDS Integers, Sequences, FiniteSets, TLC

VARIABLES
    \* ---- HistoryViewer ----
    all_prompts,            \* self.all_prompts: sequence of Prompt records
    filter_text,            \* self.filter_text
    show_only_highlighted,  \* reactive show_only_highlighted
    sort_by_length,         \* reactive sort_by_length
    search_value,           \* value of the #search Input widget
    lv_items,               \* prompts of the PromptItems in #prompt-list, in order
    lv_index,               \* cursor of #prompt-list: 0 is None, else a position
    lv_stars,               \* for each PromptItem, whether it was composed with "* "
    preview,                \* what #preview-title / #preview-body show
    status,                 \* what the #status Label shows
    last,                   \* the last mutating handler that ran, and what it saw
    \* ---- parse_sessions ----
    glob,                   \* file names as history_dir.glob returns them
    fi,                     \* position in sorted(glob) of the file being read
    nread,                  \* lines read so far, over all files
    line,                   \* the line just read (its parse, see Lines)
    content,                \* local `content` after lines 48-56 for that line
    prompts,                \* local `prompts`
    idx,                    \* local `idx`
    origin,                 \* for each element of prompts: the file it was read from
                            \* and the number of lines read up to and including it
    ppc,                    \* "idle", "reading", "returned" or "raised"
    \* ---- main ----
    mpc,                    \* "idle", "start", "parsing", "running", "exited" or "crashed"
    args,                   \* argparse result: directory and project
    fs,                     \* the file system main looks at
    projects,               \* local `projects`
    history_dir,            \* local `history_dir`
    printed,                \* the last thing written to the terminal
    exit_code,              \* exit status of the process, -1 while it runs
    io_error                \* an open() of a session file has failed

viewer_vars == <<all_prompts, filter_text, show_only_highlighted, sort_by_length,
                 search_value, lv_items, lv_index, lv_stars, preview, status, last>>
parser_vars == <<glob, fi, nread, line, content, prompts, idx, origin, ppc>>
main_vars == <<mpc, args, fs, projects, history_dir, printed, exit_code, io_error>>
vars == <<viewer_vars, parser_vars, main_vars>>

-----------------------------------------------------------------------------
(* Bounds *)

\* longest text typed into the search box
MaxFilterLen == 2
\* most lines read from the session files in one run of parse_sessions
MaxRead == 3
\* most session files in the directory
MaxFiles == 2
\* most projects to choose from
MaxProjects == 2

-----------------------------------------------------------------------------
(* Strings *)

\* characters the search box can receive
FilterChars == {"A", "b"}

\* str.lower() on one character
LowerChar(c) ==
    CASE c = "A" -> "a"
      [] c = "B" -> "b"
      [] OTHER   -> c

\* a mutant of LowerStr: the text is compared as typed
LowerStr_AsTyped(s) == s

\* str.lower()
LowerStr(s) == [i \in 1..Len(s) |-> LowerChar(s[i])]

\* Python's `needle in haystack` on strings
SubstringIn(needle, haystack) ==
    \E k \in 0..(Len(haystack) - Len(needle)) :
        SubSeq(haystack, k + 1, k + Len(needle)) = needle

\* all sequences over S of length at most n
RECURSIVE SeqsUpTo(_, _)
SeqsUpTo(S, n) ==
    IF n = 0 THEN {<<>>}
    ELSE LET shorter == SeqsUpTo(S, n - 1)
         IN  shorter \cup {Append(s, c) : s \in {t \in shorter : Len(t) = n - 1}, c \in S}

-----------------------------------------------------------------------------
(* Prompt *)

\* Prompt(...) with __post_init__: char_count is len(text), highlighted False
NewPrompt(index, text, session_id, timestamp, cwd) ==
    [index |-> index, text |-> text, session_id |-> session_id,
     timestamp |-> timestamp, cwd |-> cwd,
     char_count |-> Len(text), highlighted |-> FALSE]

-----------------------------------------------------------------------------
(* JSON values, as json.loads returns them *)

\* a key of a dict, with its value
Present(v) == [present |-> TRUE, value |-> v]
\* a key the dict does not have (v only gives the field its shape)
Absent(v) == [present |-> FALSE, value |-> v]

\* dict.get(key, default)
DictGet(f, default) == IF f.present THEN f.value ELSE default

\* values of message["content"]: a string, a list of blocks, a number or null
StrContent(s) == [kind |-> "str", str |-> s, blocks |-> <<>>]
ListContent(bs) == [kind |-> "list", str |-> <<>>, blocks |-> bs]
OtherContent(k) == [kind |-> k, str |-> <<>>, blocks |-> <<>>]

\* the default of msg.get("content", "")
EmptyString == StrContent(<<>>)

\* elements of a content list
TextBlock(s) ==
    [kind |-> "dict", type |-> "text", has_text |-> TRUE, text_is_str |-> TRUE, text |-> s]
TextBlockWithoutText ==
    [kind |-> "dict", type |-> "text", has_text |-> FALSE, text_is_str |-> FALSE, text |-> <<>>]
TextBlockNumber ==
    [kind |-> "dict", type |-> "text", has_text |-> TRUE, text_is_str |-> FALSE, text |-> <<>>]
OtherBlock(t) ==
    [kind |-> "dict", type |-> t, has_text |-> FALSE, text_is_str |-> FALSE, text |-> <<>>]
BareString(s) ==
    [kind |-> "str", type |-> "none", has_text |-> TRUE, text_is_str |-> TRUE, text |-> s]

\* values of obj["message"]
Message(role, c) == [kind |-> "object", role |-> role, content |-> c]
NotAMessage(k) == [kind |-> k, role |-> Absent(""), content |-> Absent(EmptyString)]

\* the default of obj.get("message", {})
EmptyDict == Message(Absent(""), Absent(EmptyString))

\* a line of a session file, by what json.loads makes of it: json is "invalid"
\* (JSONDecodeError), "object" (a dict) or the kind of another JSON value
Object(type, message, timestamp, cwd) ==
    [json |-> "object", type |-> type, message |-> message,
     timestamp |-> timestamp, cwd |-> cwd]
NotAnObject(k) ==
    [json |-> k, type |-> Absent(""), message |-> Absent(EmptyDict),
     timestamp |-> Absent(<<>>), cwd |-> Absent(<<>>)]

\* no line read yet
NoLine == NotAnObject("none")

\* a user record with the given content field, without timestamp and cwd
UserRecord(c) ==
    Object(Present("user"), Present(Message(Present("user"), c)), Absent(<<>>), Absent(<<>>))

\* the lines a session file is made of
Lines ==
    { NotAnObject("invalid"),
      NotAnObject("array"),
      NotAnObject("null"),
      Object(Absent(""), Absent(EmptyDict), Absent(<<>>), Absent(<<>>)),
      Object(Present("assistant"),
             Present(Message(Present("assistant"), Present(StrContent(<<"h", "i">>)))),
             Present(<<"t">>), Present(<<"/">>)),
      Object(Present("user"), Absent(EmptyDict), Absent(<<>>), Absent(<<>>)),
      Object(Present("user"), Present(NotAMessage("string")), Absent(<<>>), Absent(<<>>)),
      Object(Present("user"),
             Present(Message(Present("assistant"), Present(StrContent(<<"h", "i">>)))),
             Absent(<<>>), Absent(<<>>)),
      Object(Present("user"),
             Present(Message(Present("user"), Present(StrContent(<<"h", "i">>)))),
             Present(<<"t">>), Present(<<"/">>)),
      UserRecord(Present(StrContent(<<" ", "h", "i", "\n">>))),
      UserRecord(Present(StrContent(<<" ", "\n">>))),
      UserRecord(Absent(EmptyString)),
      UserRecord(Present(OtherContent("number"))),
      UserRecord(Present(ListContent(
          <<TextBlock(<<"a">>), OtherBlock("tool_use"), TextBlock(<<"b">>)>>))),
      UserRecord(Present(ListContent(<<OtherBlock("tool_result")>>))),
      UserRecord(Present(ListContent(<<BareString(<<"s">>), TextBlock(<<" ">>)>>))),
      UserRecord(Present(ListContent(<<TextBlockWithoutText, TextBlock(<<"a">>)>>))),
      UserRecord(Present(ListContent(<<TextBlockNumber>>))) }

-----------------------------------------------------------------------------
(* parse_sessions *)

\* ".jsonl"
Suffix == <<46, 106, 115, 111, 110, 108>>

\* stems "s", "s-" and "s1s1s1s1s"
Stems == {<<115>>, <<115, 45>>, <<115, 49, 115, 49, 115, 49, 115, 49, 115>>}

\* names matching "*.jsonl"
Names == {st \o Suffix : st \in Stems}

\* Path.stem
Stem(name) == SubSeq(name, 1, Len(name) - Len(Suffix))

\* length of the session id shown
SessionIdLen == 8

\* s[:n]
Take(s, n) == SubSeq(s, 1, IF Len(s) < n THEN Len(s) ELSE n)

\* a < b for Python strings: the first differing character decides, a proper
\* prefix comes first
RECURSIVE StrLess(_, _)
StrLess(a, b) ==
    IF b = <<>> THEN FALSE
    ELSE IF a = <<>> THEN TRUE
    ELSE IF Head(a) # Head(b) THEN Head(a) < Head(b)
    ELSE StrLess(Tail(a), Tail(b))

RECURSIVE InsertName(_, _)
InsertName(n, s) ==
    IF s = <<>> THEN <<n>>
    ELSE IF StrLess(n, Head(s)) THEN <<n>> \o s
    ELSE <<Head(s)>> \o InsertName(n, Tail(s))

\* a mutant of SortedNames: the files are read in the order glob yields them
SortedNames_Unsorted(s) == s

\* sorted(history_dir.glob("*.jsonl"))
RECURSIVE SortedNames(_)
SortedNames(s) ==
    IF s = <<>> THEN <<>>
    ELSE InsertName(Head(s), SortedNames(Tail(s)))

\* str.strip(): whitespace removed at both ends
Whitespace == {" ", "\n"}

RECURSIVE LStrip(_)
LStrip(s) == IF s # <<>> /\ Head(s) \in Whitespace THEN LStrip(Tail(s)) ELSE s

RECURSIVE RStrip(_)
RStrip(s) ==
    IF s # <<>> /\ s[Len(s)] \in Whitespace THEN RStrip(SubSeq(s, 1, Len(s) - 1)) ELSE s

\* a mutant of Strip: only the left end is stripped
Strip_LeftOnly(s) == LStrip(s)

Strip(s) == RStrip(LStrip(s))

\* a mutant of Parts: a block of another kind leaves an empty part
RECURSIVE Parts_EmptyPartForOthers(_)
Parts_EmptyPartForOthers(blocks) ==
    IF blocks = <<>> THEN <<>>
    ELSE LET b == Head(blocks)
         IN  IF (b.kind = "dict" /\ b.type = "text") \/ b.kind = "str"
             THEN <<b>> \o Parts_EmptyPartForOthers(Tail(blocks))
             ELSE <<BareString(<<>>)>> \o Parts_EmptyPartForOthers(Tail(blocks))

\* the loop of lines 51-55 when no block raises: the blocks appended to parts
RECURSIVE Parts(_)
Parts(blocks) ==
    IF blocks = <<>> THEN <<>>
    ELSE LET b == Head(blocks)
         IN  IF b.kind = "dict" /\ b.type = "text" THEN <<b>> \o Parts(Tail(blocks))
             ELSE IF b.kind = "str" THEN <<b>> \o Parts(Tail(blocks))
             ELSE Parts(Tail(blocks))

\* "\n".join(parts)
RECURSIVE JoinLines(_)
JoinLines(parts) ==
    IF parts = <<>> THEN <<>>
    ELSE IF Len(parts) = 1 THEN parts[1].text
    ELSE parts[1].text \o <<"\n">> \o JoinLines(Tail(parts))

\* lines 49-56: ok is FALSE when block["text"] raises KeyError or join raises
\* TypeError; content is the local `content` afterwards
Extract(c) ==
    IF c.kind = "list"
    THEN IF \/ \E i \in 1..Len(c.blocks) :
                  LET b == c.blocks[i]
                  IN  b.kind = "dict" /\ b.type = "text" /\ ~b.has_text
            \/ \E i \in 1..Len(Parts(c.blocks)) : ~Parts(c.blocks)[i].text_is_str
         THEN [ok |-> FALSE, content |-> c]
         ELSE [ok |-> TRUE, content |-> StrContent(JoinLines(Parts(c.blocks)))]
    ELSE [ok |-> TRUE, content |-> c]

\* a mutant of RoleOf: the role of the message is not looked at
RoleOf_Unchecked(msg) == "user"

\* msg.get("role")
RoleOf(msg) == DictGet(msg.role, "none")

\* lines 39-58 for one line: "skip" (continue), "emit" (lines 59-68) or
\* "raise" (an exception that no except clause catches); c0 is the local
\* `content` before
Process(rec, c0) ==
    IF rec.json = "invalid" THEN [out |-> "skip", content |-> c0]
    ELSE IF rec.json # "object" THEN [out |-> "raise", content |-> c0]
    ELSE IF DictGet(rec.type, "none") # "user" THEN [out |-> "skip", content |-> c0]
    ELSE LET msg == DictGet(rec.message, EmptyDict)
         IN  IF msg.kind # "object" THEN [out |-> "raise", content |-> c0]
             ELSE IF RoleOf(msg) # "user" THEN [out |-> "skip", content |-> c0]
             ELSE LET e == Extract(DictGet(msg.content, EmptyString))
                  IN  IF ~e.ok \/ e.content.kind # "str"
                      THEN [out |-> "raise", content |-> e.content]
                      ELSE IF Strip(e.content.str) = <<>>
                           THEN [out |-> "skip", content |-> e.content]
                           ELSE [out |-> "emit", content |-> e.content]

\* the file being read
CurrentFile == SortedNames(glob)[fi]

\* one iteration of `for line in f`, the line read being rec
ReadLine(rec) ==
    /\ ppc = "reading"
    /\ fi <= Len(glob)
    /\ fi # fs.locked
    /\ nread < MaxRead
    /\ nread' = nread + 1
    /\ line' = rec
    /\ LET r == Process(rec, content)
       IN  /\ content' = r.content
           /\ CASE r.out = "emit" ->
                     /\ prompts' = Append(prompts,
                            NewPrompt(idx, Strip(r.content.str),
                                      Take(Stem(CurrentFile), SessionIdLen),
                                      DictGet(rec.timestamp, <<>>),
                                      DictGet(rec.cwd, <<>>)))
                     /\ idx' = idx + 1
                     /\ origin' = Append(origin, <<CurrentFile, nread + 1>>)
                     /\ UNCHANGED ppc
                [] r.out = "skip" ->
                     UNCHANGED <<prompts, idx, origin, ppc>>
                [] r.out = "raise" ->
                     /\ ppc' = "raised"
                     /\ UNCHANGED <<prompts, idx, origin>>
    /\ UNCHANGED <<glob, fi>>
    /\ UNCHANGED <<viewer_vars, main_vars>>

\* open(filepath) fails: the exception leaves parse_sessions
OpenFails ==
    /\ ppc = "reading"
    /\ fi <= Len(glob)
    /\ fi = fs.locked
    /\ ppc' = "raised"
    /\ io_error' = TRUE
    /\ UNCHANGED <<glob, fi, nread, line, content, prompts, idx, origin>>
    /\ UNCHANGED <<mpc, args, fs, projects, history_dir, printed, exit_code>>
    /\ UNCHANGED viewer_vars

\* the file is exhausted: it is closed and the next one is opened
EndOfFile ==
    /\ ppc = "reading"
    /\ fi <= Len(glob)
    /\ fi # fs.locked
    /\ fi' = fi + 1
    /\ UNCHANGED <<glob, nread, line, content, prompts, idx, origin, ppc>>
    /\ UNCHANGED <<viewer_vars, main_vars>>

\* return prompts
Return ==
    /\ ppc = "reading"
    /\ fi = Len(glob) + 1
    /\ ppc' = "returned"
    /\ UNCHANGED <<glob, fi, nread, line, content, prompts, idx, origin>>
    /\ UNCHANGED <<viewer_vars, main_vars>>

-----------------------------------------------------------------------------
(* HistoryViewer.get_visible_prompts *)

\* insert p into a sequence ordered by char_count descending, after every
\* element whose char_count is at least p's (what a stable sort does when the
\* elements arrive in their original order)
RECURSIVE InsertByLength(_, _)
InsertByLength(p, s) ==
    IF s = <<>> THEN <<p>>
    ELSE IF Head(s).char_count >= p.char_count
         THEN <<Head(s)>> \o InsertByLength(p, Tail(s))
         ELSE <<p>> \o s

RECURSIVE SortAscending(_)
SortAscending(s) ==
    IF s = <<>> THEN <<>>
    ELSE LET rest == SortAscending(SubSeq(s, 1, Len(s) - 1))
             p == s[Len(s)]
             RECURSIVE Ins(_)
             Ins(t) == IF t = <<>> THEN <<p>>
                       ELSE IF Head(t).char_count <= p.char_count
                            THEN <<Head(t)>> \o Ins(Tail(t))
                            ELSE <<p>> \o t
         IN  Ins(rest)

\* a mutant of SortedByLength: sort ascending, then reverse the list
SortedByLength_Reversed(s) ==
    LET a == SortAscending(s)
    IN  [i \in 1..Len(a) |-> a[Len(a) + 1 - i]]

\* sorted(prompts, key=lambda p: p.char_count, reverse=True)
RECURSIVE SortedByLength(_)
SortedByLength(s) ==
    IF s = <<>> THEN <<>>
    ELSE InsertByLength(s[Len(s)], SortedByLength(SubSeq(s, 1, Len(s) - 1)))

\* get_visible_prompts, as a function of the state it reads
GetVisiblePrompts(ps, ft, soh, sbl) ==
    LET p1 == IF soh THEN SelectSeq(ps, LAMBDA p : p.highlighted) ELSE ps
        p2 == IF ft # <<>>
              THEN SelectSeq(p1, LAMBDA p : SubstringIn(LowerStr(ft), LowerStr(p.text)))
              ELSE p1
    IN  IF sbl THEN SortedByLength(p2) ELSE p2

\* get_visible_prompts() in the current state
Visible == GetVisiblePrompts(all_prompts, filter_text, show_only_highlighted, sort_by_length)


-----------------------------------------------------------------------------
(* HistoryViewer: the list, the preview and the handlers *)

\* position in all_prompts of the Prompt object p
PosOf(ps, p) == CHOOSE i \in 1..Len(ps) : ps[i].index = p.index

\* rebuild_list: the PromptItems appended to #prompt-list, as positions in ps
Rendered(ps, ft, soh, sbl) ==
    LET vis == GetVisiblePrompts(ps, ft, soh, sbl)
    IN  [i \in 1..Len(vis) |-> PosOf(ps, vis[i])]

\* compose: the preview pane before any prompt was shown
Placeholder ==
    [shown |-> FALSE, of |-> -1, session |-> <<>>, chars |-> 0, star |-> FALSE,
     body |-> <<>>]

\* show_preview(prompt): what the pane shows, and (of) the index of the prompt
\* it was drawn from
ShowPreview(p) ==
    [shown |-> TRUE, of |-> p.index, session |-> p.session_id,
     chars |-> p.char_count, star |-> p.highlighted, body |-> p.text]

\* _get_current_prompt: position of the focused prompt, 0 for None
CurrentPrompt == IF lv_index # 0 THEN lv_items[lv_index] ELSE 0

\* the record kept of a handler run: the key, the prompt it acted on, the value
\* its flag had before, and whether the run before was the same key on the
\* same prompt (then before2 is the value the flag had before that run)
Note(op, target, before) ==
    LET again == last.op = op /\ last.target = target
    IN  [op |-> op, target |-> target, before |-> before, twice |-> again,
         before2 |-> IF again THEN last.before ELSE before]

NoNote == [op |-> "none", target |-> 0, before |-> FALSE, twice |-> FALSE, before2 |-> FALSE]

\* a piece of the status text
Piece(kind, text) == [kind |-> kind, text |-> text]

\* lines 183-189: the list `mode`
Modes(soh, sbl, ft) ==
    (IF soh THEN <<Piece("highlighted only", <<>>)>> ELSE <<>>)
        \o (IF sbl THEN <<Piece("sorted by length", <<>>)>> ELSE <<>>)
        \o (IF ft # <<>> THEN <<Piece("filter", ft)>> ELSE <<>>)

\* " | ".join(mode)
RECURSIVE JoinModes(_)
JoinModes(mode) ==
    IF mode = <<>> THEN <<>>
    ELSE IF Len(mode) = 1 THEN <<mode[1]>>
    ELSE <<mode[1], Piece(" | ", <<>>)>> \o JoinModes(Tail(mode))

\* a mutant of StatusText: the filter is listed first
StatusText_FilterFirst(nvis, ntotal, soh, sbl, ft) ==
    LET mode == (IF ft # <<>> THEN <<Piece("filter", ft)>> ELSE <<>>)
                    \o (IF soh THEN <<Piece("highlighted only", <<>>)>> ELSE <<>>)
                    \o (IF sbl THEN <<Piece("sorted by length", <<>>)>> ELSE <<>>)
    IN  [visible |-> nvis, total |-> ntotal,
         mode |-> IF mode # <<>> THEN JoinModes(mode) ELSE <<Piece("all prompts", <<>>)>>]

\* lines 183-191: " {len(visible)}/{len(self.all_prompts)} prompts  [{mode_str}]"
StatusText(nvis, ntotal, soh, sbl, ft) ==
    LET mode == Modes(soh, sbl, ft)
    IN  [visible |-> nvis, total |-> ntotal,
         mode |-> IF mode # <<>> THEN JoinModes(mode) ELSE <<Piece("all prompts", <<>>)>>]

\* compose: Label("", id="status")
NoStatus == [visible |-> 0, total |-> 0, mode |-> <<>>]

\* the rest of rebuild_list, run on the state the handler leaves: the items
\* are composed from their prompts and the status line is written
ListRebuilt ==
    /\ lv_stars' = [i \in 1..Len(lv_items') |-> all_prompts'[lv_items'[i]].highlighted]
    /\ status' = StatusText(
           Len(GetVisiblePrompts(all_prompts', filter_text', show_only_highlighted',
                                 sort_by_length')),
           Len(all_prompts'), show_only_highlighted', sort_by_length', filter_text')

\* on_search_changed(event) with event.value = v
OnSearchChanged(v) ==
    /\ filter_text' = v
    /\ search_value' = v
    /\ lv_items' = Rendered(all_prompts, v, show_only_highlighted, sort_by_length)
    /\ lv_index' = 0
    /\ last' = Note("search", 0, FALSE)
    /\ UNCHANGED <<all_prompts, show_only_highlighted, sort_by_length, preview>>
    /\ UNCHANGED <<parser_vars, main_vars>>
    /\ ListRebuilt

\* the cursor of #prompt-list moves to item i; on_prompt_highlighted runs
OnPromptHighlighted(i) ==
    /\ i \in 1..Len(lv_items)
    /\ lv_index' = i
    /\ preview' = ShowPreview(all_prompts[lv_items[i]])
    /\ UNCHANGED <<all_prompts, filter_text, show_only_highlighted, sort_by_length,
                   search_value, lv_items, last>>
    /\ UNCHANGED <<lv_stars, status, parser_vars, main_vars>>

\* Enter on the focused item; on_prompt_selected runs
OnPromptSelected ==
    /\ lv_index # 0
    /\ preview' = ShowPreview(all_prompts[lv_items[lv_index]])
    /\ UNCHANGED <<all_prompts, filter_text, show_only_highlighted, sort_by_length,
                   search_value, lv_items, lv_index, last>>
    /\ UNCHANGED <<lv_stars, status, parser_vars, main_vars>>

\* a mutant of ToggleAt: the list position is used as the position in ps
ToggleAt_ListPosition(ps, pos) ==
    [ps EXCEPT ![lv_index].highlighted = ~@]

\* p.highlighted = not p.highlighted, p the prompt at position pos of ps
ToggleAt(ps, pos) ==
    [ps EXCEPT ![pos].highlighted = ~@]

\* a mutant of ActionToggleHighlight: the preview is not drawn again
ActionToggleHighlight_PreviewKept ==
    LET pos == CurrentPrompt
    IN  IF pos # 0
        THEN /\ all_prompts' = ToggleAt(all_prompts, pos)
             /\ lv_items' = Rendered(all_prompts', filter_text, show_only_highlighted,
                                     sort_by_length)
             /\ lv_index' = 0
             /\ last' = Note("h", pos, all_prompts[pos].highlighted)
             /\ UNCHANGED <<filter_text, show_only_highlighted, sort_by_length,
                            search_value, preview>>
             /\ UNCHANGED <<parser_vars, main_vars>>
             /\ ListRebuilt
        ELSE /\ last' = Note("h", 0, FALSE)
             /\ UNCHANGED <<all_prompts, filter_text, show_only_highlighted, sort_by_length,
                            search_value, lv_items, lv_index, preview>>
             /\ UNCHANGED <<lv_stars, status, parser_vars, main_vars>>

\* action_toggle_highlight (key h)
ActionToggleHighlight ==
    LET pos == CurrentPrompt
    IN  IF pos # 0
        THEN /\ all_prompts' = ToggleAt(all_prompts, pos)
             /\ lv_items' = Rendered(all_prompts', filter_text, show_only_highlighted,
                                     sort_by_length)
             /\ lv_index' = 0
             /\ preview' = ShowPreview(all_prompts'[pos])
             /\ last' = Note("h", pos, all_prompts[pos].highlighted)
             /\ UNCHANGED <<filter_text, show_only_highlighted, sort_by_length, search_value>>
             /\ UNCHANGED <<parser_vars, main_vars>>
             /\ ListRebuilt
        ELSE /\ last' = Note("h", 0, FALSE)
             /\ UNCHANGED <<all_prompts, filter_text, show_only_highlighted, sort_by_length,
                            search_value, lv_items, lv_index, preview>>
             /\ UNCHANGED <<lv_stars, status, parser_vars, main_vars>>

\* a mutant of ActionShowHighlightedOnly: the key switches the mode on
ActionShowHighlightedOnly_SetsTrue ==
    /\ show_only_highlighted' = TRUE
    /\ lv_items' = Rendered(all_prompts, filter_text, TRUE, sort_by_length)
    /\ lv_index' = 0
    /\ last' = Note("o", 0, show_only_highlighted)
    /\ UNCHANGED <<all_prompts, filter_text, sort_by_length, search_value, preview>>
    /\ UNCHANGED <<parser_vars, main_vars>>
    /\ ListRebuilt

\* action_show_highlighted_only (key o)
ActionShowHighlightedOnly ==
    /\ show_only_highlighted' = ~show_only_highlighted
    /\ lv_items' = Rendered(all_prompts, filter_text, show_only_highlighted', sort_by_length)
    /\ lv_index' = 0
    /\ last' = Note("o", 0, show_only_highlighted)
    /\ UNCHANGED <<all_prompts, filter_text, sort_by_length, search_value, preview>>
    /\ UNCHANGED <<parser_vars, main_vars>>
    /\ ListRebuilt

\* a mutant of ActionShowAll: the sort mode is left as it is
ActionShowAll_KeepsSort ==
    /\ show_only_highlighted' = FALSE
    /\ filter_text' = <<>>
    /\ search_value' = <<>>
    /\ lv_items' = Rendered(all_prompts, <<>>, FALSE, sort_by_length)
    /\ lv_index' = 0
    /\ last' = Note("a", 0, FALSE)
    /\ UNCHANGED <<all_prompts, sort_by_length, preview>>
    /\ UNCHANGED <<parser_vars, main_vars>>
    /\ ListRebuilt

\* a mutant of ActionShowAll: the highlight flags are cleared as well
ActionShowAll_ClearsHighlights ==
    /\ show_only_highlighted' = FALSE
    /\ sort_by_length' = FALSE
    /\ filter_text' = <<>>
    /\ search_value' = <<>>
    /\ all_prompts' = [i \in 1..Len(all_prompts) |->
                          [all_prompts[i] EXCEPT !.highlighted = FALSE]]
    /\ lv_items' = Rendered(all_prompts', <<>>, FALSE, FALSE)
    /\ lv_index' = 0
    /\ last' = Note("a", 0, FALSE)
    /\ UNCHANGED preview
    /\ UNCHANGED <<parser_vars, main_vars>>
    /\ ListRebuilt

\* action_show_all (key a)
ActionShowAll ==
    /\ show_only_highlighted' = FALSE
    /\ sort_by_length' = FALSE
    /\ filter_text' = <<>>
    /\ search_value' = <<>>
    /\ lv_items' = Rendered(all_prompts, <<>>, FALSE, FALSE)
    /\ lv_index' = 0
    /\ last' = Note("a", 0, FALSE)
    /\ UNCHANGED <<all_prompts, preview>>
    /\ UNCHANGED <<parser_vars, main_vars>>
    /\ ListRebuilt

\* a mutant of ActionSortLongest: the list is not rebuilt
ActionSortLongest_NotRebuilt ==
    /\ sort_by_length' = ~sort_by_length
    /\ last' = Note("l", 0, sort_by_length)
    /\ UNCHANGED <<all_prompts, filter_text, show_only_highlighted, search_value, preview,
                   lv_items, lv_index, lv_stars, status>>
    /\ UNCHANGED <<parser_vars, main_vars>>

\* action_sort_longest (key l)
ActionSortLongest ==
    /\ sort_by_length' = ~sort_by_length
    /\ lv_items' = Rendered(all_prompts, filter_text, show_only_highlighted, sort_by_length')
    /\ lv_index' = 0
    /\ last' = Note("l", 0, sort_by_length)
    /\ UNCHANGED <<all_prompts, filter_text, show_only_highlighted, search_value, preview>>
    /\ UNCHANGED <<parser_vars, main_vars>>
    /\ ListRebuilt

\* a mutant of ActionSortNatural: highlighted-only is switched off as well
ActionSortNatural_ShowsAll ==
    /\ sort_by_length' = FALSE
    /\ show_only_highlighted' = FALSE
    /\ lv_items' = Rendered(all_prompts, filter_text, FALSE, FALSE)
    /\ lv_index' = 0
    /\ last' = Note("n", 0, sort_by_length)
    /\ UNCHANGED <<all_prompts, filter_text, search_value, preview>>
    /\ UNCHANGED <<parser_vars, main_vars>>
    /\ ListRebuilt

\* action_sort_natural (key n)
ActionSortNatural ==
    /\ sort_by_length' = FALSE
    /\ lv_items' = Rendered(all_prompts, filter_text, show_only_highlighted, FALSE)
    /\ lv_index' = 0
    /\ last' = Note("n", 0, sort_by_length)
    /\ UNCHANGED <<all_prompts, filter_text, show_only_highlighted, search_value, preview>>
    /\ UNCHANGED <<parser_vars, main_vars>>
    /\ ListRebuilt

-----------------------------------------------------------------------------
(* The file system, as main sees it *)

\* is_dir: args.directory is a directory; root_is_dir: ~/.claude/projects is
\* a directory; listing: the names iterdir() yields there, in its order; dirs:
\* those of them that are directories; readable: the history directory can be
\* listed; sessions: the "*.jsonl" names in it, in directory order; locked: the
\* place, in sorted order, of a session file that cannot be opened (0: none)
FileSystem(is_dir, root_is_dir, listing, dirs, readable, sessions, locked) ==
    [is_dir |-> is_dir, root_is_dir |-> root_is_dir, listing |-> listing,
     dirs |-> dirs, readable |-> readable, sessions |-> sessions,
     locked |-> locked]

NoFileSystem == FileSystem(FALSE, FALSE, <<>>, {}, FALSE, <<>>, 0)

\* something written to the terminal: the message and the names listed under it
Output(what, names) == [what |-> what, names |-> names]

NoOutput == Output("", <<>>)

-----------------------------------------------------------------------------
(* Collections the viewer is started with: results of parse_sessions *)

Sid == <<115, 49>>

Collection1 ==
    << NewPrompt(0, <<"a", "B">>, Sid, <<>>, <<>>),
       NewPrompt(1, <<"b">>, Sid, <<>>, <<>>),
       NewPrompt(2, <<"A", "b">>, Sid, <<>>, <<>>) >>

Collection2 ==
    << NewPrompt(0, <<"b", "a">>, Sid, <<>>, <<>>),
       NewPrompt(1, <<"a", "b", "A">>, Sid, <<>>, <<>>) >>

Collections == {Collection1, Collection2}

\* main is not part of the run
MainIdle ==
    /\ mpc = "idle"
    /\ args = [directory |-> <<>>, project |-> <<>>]
    /\ fs = NoFileSystem
    /\ projects = <<>>
    /\ history_dir = <<>>
    /\ printed = NoOutput
    /\ exit_code = -1
    /\ io_error = FALSE

\* parse_sessions is not running
ParserIdle ==
    /\ glob = <<>>
    /\ fi = 0
    /\ nread = 0
    /\ line = NoLine
    /\ content = EmptyString
    /\ prompts = <<>>
    /\ idx = 0
    /\ origin = <<>>
    /\ ppc = "idle"

\* HistoryViewer(prompts), compose and on_mount
Init ==
    /\ all_prompts \in Collections
    /\ filter_text = <<>>
    /\ show_only_highlighted = FALSE
    /\ sort_by_length = FALSE
    /\ search_value = <<>>
    /\ lv_items = Rendered(all_prompts, <<>>, FALSE, FALSE)
    /\ lv_index = 0
    /\ lv_stars = [i \in 1..Len(lv_items) |-> FALSE]
    /\ preview = Placeholder
    /\ status = StatusText(Len(all_prompts), Len(all_prompts), FALSE, FALSE, <<>>)
    /\ last = NoNote
    /\ ParserIdle
    /\ MainIdle

Next ==
    \/ \E v \in SeqsUpTo(FilterChars, MaxFilterLen) : OnSearchChanged(v)
    \/ \E i \in 1..Len(lv_items) : OnPromptHighlighted(i)
    \/ OnPromptSelected
    \/ ActionToggleHighlight
    \/ ActionShowHighlightedOnly
    \/ ActionShowAll
    \/ ActionSortLongest
    \/ ActionSortNatural

Spec == Init /\ [][Next]_vars

-----------------------------------------------------------------------------
(* parse_sessions on the directories of at most MaxFiles session files *)

\* what glob can yield: the names of the files, each once, in any order
Globs ==
    {g \in SeqsUpTo(Names, MaxFiles) : \A i, j \in 1..Len(g) : i # j => g[i] # g[j]}

\* no HistoryViewer has been made
ViewerNotStarted ==
    /\ all_prompts = <<>>
    /\ filter_text = <<>>
    /\ show_only_highlighted = FALSE
    /\ sort_by_length = FALSE
    /\ search_value = <<>>
    /\ lv_items = <<>>
    /\ lv_index = 0
    /\ lv_stars = <<>>
    /\ preview = Placeholder
    /\ status = NoStatus
    /\ last = NoNote

\* lines 33-35
ParseInit ==
    /\ glob \in Globs
    /\ fi = 1
    /\ nread = 0
    /\ line = NoLine
    /\ content = EmptyString
    /\ prompts = <<>>
    /\ idx = 0
    /\ origin = <<>>
    /\ ppc = "reading"
    /\ ViewerNotStarted
    /\ MainIdle

ParseNext ==
    \/ \E rec \in Lines : ReadLine(rec)
    \/ EndOfFile
    \/ Return

ParseSpec == ParseInit /\ [][ParseNext]_vars

-----------------------------------------------------------------------------
(* main: from the command line to the running viewer *)

\* str.lower() on a name given as character codes
LowerCodes(s) == [i \in 1..Len(s) |-> IF s[i] \in 65..90 THEN s[i] + 32 ELSE s[i]]

\* Path.home().name: "u"
Username == <<117>>

\* f"-Users-{username}-"
Prefix == <<45, 85, 115, 101, 114, 115, 45>> \o Username \o <<45>>

\* "memory"
Memory == <<109, 101, 109, 111, 114, 121>>

\* name.startswith(prefix)
StartsWith(name, prefix) ==
    Len(name) >= Len(prefix) /\ SubSeq(name, 1, Len(prefix)) = prefix

\* name[len(prefix):] if name.startswith(prefix) else name
Display(name) ==
    IF StartsWith(name, Prefix) THEN SubSeq(name, Len(Prefix) + 1, Len(name)) ELSE name

\* the loop of discover_projects over the sorted entries
RECURSIVE ProjectsOf(_, _)
ProjectsOf(names, dirs) ==
    IF names = <<>> THEN <<>>
    ELSE LET d == Head(names)
         IN  IF d \notin dirs \/ d = Memory
             THEN ProjectsOf(Tail(names), dirs)
             ELSE <<[display |-> Display(d), path |-> d]>> \o ProjectsOf(Tail(names), dirs)

\* discover_projects()
DiscoverProjects(f) ==
    IF ~f.root_is_dir THEN <<>> ELSE ProjectsOf(SortedNames(f.listing), f.dirs)

\* the display names of a list of projects
Displays(ps) == [i \in 1..Len(ps) |-> ps[i].display]

\* find_project_by_name(name, projects): a path is returned ("path"), None is
\* returned ("none"), or the matches are printed and the process exits ("exit")
FindProjectByName(name, ps) ==
    LET name_lower == LowerCodes(name)
        exact == {i \in 1..Len(ps) : name_lower = LowerCodes(ps[i].display)}
        matches == SelectSeq(ps, LAMBDA q : SubstringIn(name_lower, LowerCodes(q.display)))
    IN  IF exact # {}
        THEN [kind |-> "path",
              path |-> ps[CHOOSE i \in exact : \A j \in exact : i <= j].path,
              matches |-> <<>>]
        ELSE IF Len(matches) = 1
             THEN [kind |-> "path", path |-> matches[1].path, matches |-> <<>>]
             ELSE IF Len(matches) > 1
                  THEN [kind |-> "exit", path |-> <<>>, matches |-> Displays(matches)]
                  ELSE [kind |-> "none", path |-> <<>>, matches |-> <<>>]

\* print(...) and sys.exit(1)
ExitWith(what, names) ==
    /\ printed' = Output(what, names)
    /\ exit_code' = 1
    /\ mpc' = "exited"
    /\ UNCHANGED history_dir

\* history_dir is settled and main goes on to parse_sessions
Resolved(path) ==
    /\ history_dir' = path
    /\ mpc' = "resolved"
    /\ UNCHANGED <<printed, exit_code>>

\* main, lines 317-321: a directory was given
MainDirectory ==
    /\ mpc = "start"
    /\ args.directory # <<>>
    /\ IF ~fs.is_dir
       THEN ExitWith("Error: not a directory", <<>>)
       ELSE Resolved(args.directory)
    /\ UNCHANGED <<args, fs, projects, io_error>>
    /\ UNCHANGED <<viewer_vars, parser_vars>>

\* main, lines 322-333: a project name was given
MainProject ==
    /\ mpc = "start"
    /\ args.directory = <<>>
    /\ args.project # <<>>
    /\ projects' = DiscoverProjects(fs)
    /\ IF projects' = <<>>
       THEN ExitWith("No projects found", <<>>)
       ELSE LET r == FindProjectByName(args.project, projects')
            IN  CASE r.kind = "exit" -> ExitWith("Ambiguous project name", r.matches)
                  [] r.kind = "none" ->
                         ExitWith("No project matching found", Displays(projects'))
                  [] r.kind = "path" -> Resolved(r.path)
    /\ UNCHANGED <<args, fs, io_error>>
    /\ UNCHANGED <<viewer_vars, parser_vars>>

\* main, lines 334-339, up to the numbered list pick_project_interactive prints
MainInteractive ==
    /\ mpc = "start"
    /\ args.directory = <<>>
    /\ args.project = <<>>
    /\ projects' = DiscoverProjects(fs)
    /\ IF projects' = <<>>
       THEN ExitWith("No projects found", <<>>)
       ELSE /\ printed' = Output("Claude Code projects found:", Displays(projects'))
            /\ mpc' = "choosing"
            /\ UNCHANGED <<history_dir, exit_code>>
    /\ UNCHANGED <<args, fs, io_error>>
    /\ UNCHANGED <<viewer_vars, parser_vars>>

\* one round of the loop of pick_project_interactive: the number typed is n
\* (0 stands for every input that is not a number of the list)
PickProject(n) ==
    /\ mpc = "choosing"
    /\ IF n - 1 >= 0 /\ n - 1 < Len(projects)
       THEN Resolved(projects[n].path)
       ELSE /\ printed' = Output("Please enter a number", <<>>)
            /\ UNCHANGED <<mpc, history_dir, exit_code>>
    /\ UNCHANGED <<args, fs, projects, io_error>>
    /\ UNCHANGED <<viewer_vars, parser_vars>>

\* main, line 341, and parse_sessions, lines 33-36: the call.  Path.glob yields
\* nothing for a directory that cannot be listed.
CallParseSessions ==
    /\ mpc = "resolved"
    /\ mpc' = "parsing"
    /\ glob' = IF fs.readable THEN fs.sessions ELSE <<>>
    /\ fi' = 1
    /\ nread' = 0
    /\ line' = NoLine
    /\ content' = EmptyString
    /\ prompts' = <<>>
    /\ idx' = 0
    /\ origin' = <<>>
    /\ ppc' = "reading"
    /\ UNCHANGED <<args, fs, projects, history_dir, printed, exit_code, io_error>>
    /\ UNCHANGED viewer_vars

\* an exception leaves parse_sessions and main: the interpreter prints the
\* traceback and exits with status 1
MainCrash ==
    /\ mpc = "parsing"
    /\ ppc = "raised"
    /\ mpc' = "crashed"
    /\ printed' = Output("Traceback", <<>>)
    /\ exit_code' = 1
    /\ UNCHANGED <<args, fs, projects, history_dir, io_error>>
    /\ UNCHANGED <<viewer_vars, parser_vars>>

\* main, lines 342-344
NoPrompts ==
    /\ mpc = "parsing"
    /\ ppc = "returned"
    /\ prompts = <<>>
    /\ printed' = Output("No user prompts found in the history files.", <<>>)
    /\ exit_code' = 1
    /\ mpc' = "exited"
    /\ UNCHANGED <<args, fs, projects, history_dir, io_error>>
    /\ UNCHANGED <<viewer_vars, parser_vars>>

\* HistoryViewer(prompts), compose and on_mount, on the state after
HistoryViewerStarted(ps) ==
    /\ all_prompts' = ps
    /\ filter_text' = <<>>
    /\ show_only_highlighted' = FALSE
    /\ sort_by_length' = FALSE
    /\ search_value' = <<>>
    /\ lv_items' = Rendered(ps, <<>>, FALSE, FALSE)
    /\ lv_index' = 0
    /\ preview' = Placeholder
    /\ last' = NoNote
    /\ ListRebuilt

\* a mutant of StartViewer: the viewer is started whatever was parsed
StartViewer_AnyPrompts ==
    /\ mpc = "parsing"
    /\ ppc = "returned"
    /\ printed' = Output("Loaded prompts.", <<>>)
    /\ mpc' = "running"
    /\ HistoryViewerStarted(prompts)
    /\ UNCHANGED <<args, fs, projects, history_dir, exit_code, io_error>>
    /\ UNCHANGED parser_vars

\* main, lines 342 and 345-347
StartViewer ==
    /\ mpc = "parsing"
    /\ ppc = "returned"
    /\ prompts # <<>>
    /\ printed' = Output("Loaded prompts.", <<>>)
    /\ mpc' = "running"
    /\ HistoryViewerStarted(prompts)
    /\ UNCHANGED <<args, fs, projects, history_dir, exit_code, io_error>>
    /\ UNCHANGED parser_vars

\* the key q: app.run() returns and main with it
ActionQuit ==
    /\ mpc = "running"
    /\ mpc' = "exited"
    /\ exit_code' = 0
    /\ UNCHANGED <<args, fs, projects, history_dir, printed, io_error>>
    /\ UNCHANGED <<viewer_vars, parser_vars>>

\* the directory named on the command line: "d"
DirArg == <<100>>

\* "app", "App", "xapp", "appy" and "-Users-u-app"
NameApp == <<97, 112, 112>>
NameAppUpper == <<65, 112, 112>>
NameXapp == <<120, 97, 112, 112>>
NameAppy == <<97, 112, 112, 121>>
NameHomeApp == Prefix \o NameApp

\* what -p is given: "app", "APP", "xa" and "zz"
Queries == {NameApp, <<65, 80, 80>>, <<120, 97>>, <<122, 122>>}

\* ~/.claude/projects: missing, or with one of these contents
ProjectRoots ==
    { [root_is_dir |-> FALSE, listing |-> <<>>, dirs |-> {}],
      [root_is_dir |-> TRUE, listing |-> <<>>, dirs |-> {}],
      [root_is_dir |-> TRUE, listing |-> <<Memory, NameApp>>, dirs |-> {Memory}],
      [root_is_dir |-> TRUE, listing |-> <<NameHomeApp, Memory>>,
       dirs |-> {NameHomeApp, Memory}],
      [root_is_dir |-> TRUE, listing |-> <<NameApp, NameAppUpper>>,
       dirs |-> {NameApp, NameAppUpper}],
      [root_is_dir |-> TRUE, listing |-> <<NameApp, NameHomeApp>>,
       dirs |-> {NameApp, NameHomeApp}],
      [root_is_dir |-> TRUE, listing |-> <<NameXapp, NameAppy>>,
       dirs |-> {NameXapp, NameAppy}],
      [root_is_dir |-> TRUE, listing |-> <<NameXapp, NameApp>>,
       dirs |-> {NameXapp, NameApp}] }

\* the session files of the history directory, in directory order
StartupGlobs ==
    { <<>>, << <<115>> \o Suffix >>, << <<115, 45>> \o Suffix, <<115>> \o Suffix >> }

\* the history directory: listable with any one file locked or none, or not
\* listable at all
HistoryDirs ==
    UNION { { [readable |-> TRUE, sessions |-> g, locked |-> k] : k \in 0..Len(g) } :
                g \in StartupGlobs }
        \cup { [readable |-> FALSE, sessions |-> << <<115>> \o Suffix >>, locked |-> 0] }

\* the lines the session files are made of: one that gives a prompt, one that
\* is skipped and one that parse_sessions fails on
StartupLines ==
    { UserRecord(Present(StrContent(<<" ", "h", "i", "\n">>))),
      NotAnObject("invalid"),
      NotAnObject("array") }

\* the command lines and the file systems main is run on
Startups ==
    { [args |-> [directory |-> DirArg, project |-> q],
       fs |-> FileSystem(FALSE, FALSE, <<>>, {}, FALSE, <<>>, 0)] :
          q \in {<<>>, NameApp} }
      \cup { [args |-> [directory |-> DirArg, project |-> <<>>],
              fs |-> FileSystem(TRUE, FALSE, <<>>, {}, h.readable, h.sessions, h.locked)] :
                 h \in HistoryDirs }
      \cup { [args |-> [directory |-> <<>>, project |-> q],
              fs |-> FileSystem(FALSE, r.root_is_dir, r.listing, r.dirs,
                                h.readable, h.sessions, h.locked)] :
                 q \in Queries \cup {<<>>}, r \in ProjectRoots, h \in HistoryDirs }

\* the process has been started
MainInit ==
    /\ mpc = "start"
    /\ \E st \in Startups : args = st.args /\ fs = st.fs
    /\ projects = <<>>
    /\ history_dir = <<>>
    /\ printed = NoOutput
    /\ exit_code = -1
    /\ io_error = FALSE
    /\ ParserIdle
    /\ ViewerNotStarted

MainNext ==
    \/ MainDirectory
    \/ MainProject
    \/ MainInteractive
    \/ \E n \in 0..MaxProjects : PickProject(n)
    \/ CallParseSessions
    \/ \E rec \in StartupLines : ReadLine(rec)
    \/ OpenFails
    \/ EndOfFile
    \/ Return
    \/ MainCrash
    \/ NoPrompts
    \/ StartViewer
    \/ ActionQuit

MainSpec == MainInit /\ [][MainNext]_vars

-----------------------------------------------------------------------------
(* Properties of the view *)

\* upper and lower case of one letter
CasePairs == {{"a", "A"}, {"b", "B"}}

SameLetter(a, b) == a = b \/ {a, b} \in CasePairs

\* f occurs in text at some offset, letter by letter, case ignored
ContainsIgnoringCase(text, f) ==
    \E k \in 0..(Len(text) - Len(f)) :
        \A j \in 1..Len(f) : SameLetter(text[k + j], f[j])

\* p satisfies every predicate that is active
Satisfies(p) ==
    /\ show_only_highlighted => p.highlighted
    /\ filter_text # <<>> => ContainsIgnoringCase(p.text, filter_text)

HighlightFlags == [i \in 1..Len(all_prompts) |-> all_prompts[i].highlighted]

\* the fields of a Prompt other than highlighted
Frozen(p) == <<p.index, p.text, p.session_id, p.timestamp, p.cwd, p.char_count>>

ViewAtDefaults ==
    filter_text = <<>> /\ ~show_only_highlighted /\ ~sort_by_length

\* C1: get_visible_prompts() holds exactly the prompts of the full collection
\* that satisfy every active predicate (highlighted when highlighted-only is
\* on, text contains the filter case-insensitively when the filter is not
\* empty), each at most once.
C1_VisibleIsExactlyTheMatching ==
    LET vis == Visible
    IN  /\ \A i \in 1..Len(vis) : \E j \in 1..Len(all_prompts) : all_prompts[j] = vis[i]
        /\ \A i, j \in 1..Len(vis) : i # j => vis[i].index # vis[j].index
        /\ \A j \in 1..Len(all_prompts) :
              (\E i \in 1..Len(vis) : vis[i] = all_prompts[j]) <=> Satisfies(all_prompts[j])

\* both predicates active, an upper-case filter matching lower-case text, and
\* a visible set that is neither empty nor everything
C1_Witness ==
    /\ filter_text = <<"A", "b">>
    /\ show_only_highlighted
    /\ Len(Visible) > 0
    /\ Len(Visible) < Len(all_prompts)
    /\ \E i \in 1..Len(all_prompts) :
          /\ all_prompts[i].highlighted
          /\ ~ContainsIgnoringCase(all_prompts[i].text, filter_text)

\* C2: with sort_by_length the visible prompts are by char_count descending,
\* equal char_count in ascending index order; without it they are in strictly
\* ascending index order.
C2_VisibleOrder ==
    LET vis == Visible
    IN  \A i, j \in 1..Len(vis) :
            i < j =>
                IF sort_by_length
                THEN \/ vis[i].char_count > vis[j].char_count
                     \/ /\ vis[i].char_count = vis[j].char_count
                        /\ vis[i].index < vis[j].index
                ELSE vis[i].index < vis[j].index

\* sorted by length, with a tie and with a prompt moved ahead of an earlier one
C2_Witness ==
    LET vis == Visible
    IN  /\ sort_by_length
        /\ \E i, j \in 1..Len(vis) : i < j /\ vis[i].char_count = vis[j].char_count
        /\ \E i, j \in 1..Len(vis) : i < j /\ vis[i].index > vis[j].index

\* C3: with the three toggles at their defaults, and after show-all,
\* get_visible_prompts() is the full collection in its original order.
C3_DefaultsShowEverything ==
    /\ ViewAtDefaults => Visible = all_prompts
    /\ last.op = "a" => Visible = all_prompts

\* show-all has run while some but not all prompts are highlighted
C3_Witness ==
    /\ last.op = "a"
    /\ \E i \in 1..Len(all_prompts) : all_prompts[i].highlighted
    /\ \E i \in 1..Len(all_prompts) : ~all_prompts[i].highlighted
    /\ Visible = all_prompts

\* C4: show-all empties the filter, switches highlighted-only and
\* sort-by-length off, and leaves every highlighted flag as it was.
C4_ShowAllResetsViewOnly ==
    [][ActionShowAll =>
          /\ filter_text' = <<>>
          /\ show_only_highlighted' = FALSE
          /\ sort_by_length' = FALSE
          /\ HighlightFlags' = HighlightFlags]_vars

\* show-all has run with every prompt highlighted
C4_Witness ==
    /\ last.op = "a"
    /\ ViewAtDefaults
    /\ \A i \in 1..Len(all_prompts) : all_prompts[i].highlighted

\* C5: the same toggle applied twice in a row (highlighted-only, sort by
\* length, highlight of the same prompt) puts the flag back; sort-natural
\* leaves sort_by_length false whether applied once or twice.
C5_TogglesAreInvolutions ==
    /\ (last.twice /\ last.op = "o") => show_only_highlighted = last.before2
    /\ (last.twice /\ last.op = "l") => sort_by_length = last.before2
    /\ (last.twice /\ last.op = "h" /\ last.target # 0)
           => all_prompts[last.target].highlighted = last.before2
    /\ last.op = "n" => ~sort_by_length

\* a prompt that was highlighted has been toggled twice in a row
C5_Witness ==
    /\ last.op = "h"
    /\ last.twice
    /\ last.target # 0
    /\ last.before2
    /\ all_prompts[last.target].highlighted

\* C6: the collection keeps its length and order and every field but
\* highlighted; char_count is len(text) and indices are unique; a highlighted
\* flag changes only by toggle-highlight, and only that of the focused prompt.
C6_CollectionIsFixed ==
    /\ [](/\ \A i \in 1..Len(all_prompts) :
                all_prompts[i].char_count = Len(all_prompts[i].text)
          /\ \A i, j \in 1..Len(all_prompts) :
                i # j => all_prompts[i].index # all_prompts[j].index)
    /\ [][/\ Len(all_prompts') = Len(all_prompts)
          /\ \A i \in 1..Len(all_prompts) : Frozen(all_prompts'[i]) = Frozen(all_prompts[i])
          /\ all_prompts' # all_prompts =>
                /\ ActionToggleHighlight
                /\ lv_index # 0
                /\ \A i \in 1..Len(all_prompts) :
                      all_prompts'[i] # all_prompts[i] <=> i = lv_items[lv_index]]_vars

\* a filtered, sorted list, a preview on screen and a highlighted prompt
C6_Witness ==
    /\ last.op = "l"
    /\ sort_by_length
    /\ filter_text # <<>>
    /\ preview.shown
    /\ \E i \in 1..Len(all_prompts) : all_prompts[i].highlighted

-----------------------------------------------------------------------------
(* Properties of the parser *)

\* s has a character that is not whitespace
NonBlank(s) == \E i \in 1..Len(s) : s[i] \notin Whitespace

\* a record of type "user" whose message is an object of role "user"
IsUserRecord(rec) ==
    /\ rec.json = "object"
    /\ rec.type = Present("user")
    /\ rec.message.present
    /\ rec.message.value.kind = "object"
    /\ rec.message.value.role = Present("user")

\* every block tagged "text" has a text, and it is a string
WellFormed(blocks) ==
    \A i \in 1..Len(blocks) :
        (blocks[i].kind = "dict" /\ blocks[i].type = "text")
            => (blocks[i].has_text /\ blocks[i].text_is_str)

\* the texts of b[1..k] joined, a newline between one and the next
RECURSIVE JoinedUpTo(_, _)
JoinedUpTo(b, k) ==
    IF k = 0 THEN <<>>
    ELSE IF k = 1 THEN b[1].text
    ELSE JoinedUpTo(b, k - 1) \o <<"\n">> \o b[k].text

\* the text of a sequence of blocks: that of its text blocks and bare strings
TextOfBlocks(blocks) ==
    LET contributing ==
            SelectSeq(blocks, LAMBDA b : b.kind = "str" \/ (b.kind = "dict" /\ b.type = "text"))
    IN  JoinedUpTo(contributing, Len(contributing))

\* the record has a content from which a text that is not blank is extracted
HasText(rec) ==
    LET c == rec.message.value.content
    IN  /\ c.present
        /\ \/ c.value.kind = "str" /\ NonBlank(c.value.str)
           \/ /\ c.value.kind = "list"
              /\ WellFormed(c.value.blocks)
              /\ NonBlank(TextOfBlocks(c.value.blocks))

\* a precedes b in lexicographic order
Precedes(a, b) ==
    \E k \in 1..(Len(a) + 1) :
        /\ \A m \in 1..(k - 1) : m <= Len(b) /\ a[m] = b[m]
        /\ \/ k = Len(a) + 1 /\ k <= Len(b)
           \/ k <= Len(a) /\ k <= Len(b) /\ a[k] < b[k]

\* C7: for every line parse_sessions emits one Prompt or skips the line and
\* goes on; no error escapes, whatever the line holds.
C7_NoErrorEscapes == ppc # "raised"

\* C8: a Prompt is emitted for a line if and only if the record is of type
\* "user", its message has role "user" and the extracted text is not blank;
\* for every other line prompts and the index counter stay as they are.
C8_EmittedIffUserText ==
    [][nread' = nread + 1 =>
          IF IsUserRecord(line') /\ HasText(line')
          THEN /\ Len(prompts') = Len(prompts) + 1
               /\ SubSeq(prompts', 1, Len(prompts)) = prompts
               /\ idx' = idx + 1
          ELSE /\ prompts' = prompts
               /\ idx' = idx]_vars

\* three lines were read and parse_sessions returned: one gave a prompt, and
\* the last was a user record without text, which was dropped
C8_Witness ==
    /\ nread = 3
    /\ Len(prompts) = 1
    /\ idx = 1
    /\ ppc = "returned"
    /\ IsUserRecord(line)
    /\ ~HasText(line)

\* C9: for a user record whose content is a list, the extracted text is the
\* texts of its text blocks and bare strings, in order, joined by newlines;
\* other blocks add neither text nor separator.
C9_ListContentIsJoinedText ==
    (/\ IsUserRecord(line)
     /\ line.message.value.content.present
     /\ line.message.value.content.value.kind = "list"
     /\ WellFormed(line.message.value.content.value.blocks))
        => content = StrContent(TextOfBlocks(line.message.value.content.value.blocks))

\* the list of a text block, a tool_use block and a text block was read and
\* gave the prompt "a\nb"
C9_Witness ==
    /\ IsUserRecord(line)
    /\ line.message.value.content.value.kind = "list"
    /\ Len(line.message.value.content.value.blocks) = 3
    /\ content.str = <<"a", "\n", "b">>
    /\ prompts # <<>>
    /\ prompts[Len(prompts)].text = <<"a", "\n", "b">>

\* C10: the prompts are in emission order, files by sorted file name and lines
\* in the order read, and the k-th prompt (from 0) has index k.
C10_IndexIsEmissionOrder ==
    /\ idx = Len(prompts)
    /\ Len(origin) = Len(prompts)
    /\ \A k \in 1..Len(prompts) : prompts[k].index = k - 1
    /\ \A i, j \in 1..Len(origin) :
          i < j => \/ Precedes(origin[i][1], origin[j][1])
                   \/ origin[i][1] = origin[j][1] /\ origin[i][2] < origin[j][2]

\* glob yielded "s.jsonl" before "s-.jsonl"; a line was skipped, then one
\* prompt came from each file, "s-.jsonl" first
C10_Witness ==
    /\ ppc = "returned"
    /\ glob = <<<<115>> \o Suffix, <<115, 45>> \o Suffix>>
    /\ nread = 3
    /\ Len(prompts) = 2
    /\ origin[1] = <<<<115, 45>> \o Suffix, 2>>
    /\ origin[2] = <<<<115>> \o Suffix, 3>>
    /\ prompts[2].index = 1

\* C11: every Prompt parse_sessions produces has a text that is not empty and
\* neither starts nor ends with whitespace, a char_count equal to the length
\* of the text, and highlighted false.
C11_PromptsAreTrimmed ==
    \A k \in 1..Len(prompts) :
        LET p == prompts[k]
        IN  /\ p.text # <<>>
            /\ p.text[1] \notin Whitespace
            /\ p.text[Len(p.text)] \notin Whitespace
            /\ p.char_count = Len(p.text)
            /\ ~p.highlighted

\* the line " hi\n" was read and gave a prompt of text "hi" and char_count 2
C11_Witness ==
    /\ line = UserRecord(Present(StrContent(<<" ", "h", "i", "\n">>)))
    /\ content.str = <<" ", "h", "i", "\n">>
    /\ prompts # <<>>
    /\ prompts[Len(prompts)].text = <<"h", "i">>
    /\ prompts[Len(prompts)].char_count = 2


\* place of a mode in the fixed order of the status line
ModeRank(kind) ==
    CASE kind = "highlighted only" -> 1
      [] kind = "sorted by length" -> 2
      [] kind = "filter" -> 3
      [] OTHER -> 0

NoModeActive == ~show_only_highlighted /\ ~sort_by_length /\ filter_text = <<>>

\* C12: the status line reports the number of visible prompts, the total
\* number of prompts, and a mode description that lists exactly the active
\* modes in the order highlighted-only, sorted-by-length, filter text, with one
\* separator between neighbours, and that reads "all prompts" exactly when no
\* mode is active.
C12_StatusSummary ==
    LET mode == status.mode
        odd == {i \in 1..Len(mode) : i % 2 = 1}
        even == {i \in 1..Len(mode) : i % 2 = 0}
        listed(kind) == \E i \in odd : mode[i].kind = kind
    IN  /\ status.visible =
               Cardinality({i \in 1..Len(all_prompts) : Satisfies(all_prompts[i])})
        /\ status.total = Len(all_prompts)
        /\ (mode = <<Piece("all prompts", <<>>)>>) <=> NoModeActive
        /\ ~NoModeActive =>
               /\ Len(mode) % 2 = 1
               /\ \A i \in odd : ModeRank(mode[i].kind) # 0
               /\ \A i \in even : mode[i] = Piece(" | ", <<>>)
               /\ \A i, j \in odd :
                      i < j => ModeRank(mode[i].kind) < ModeRank(mode[j].kind)
               /\ listed("highlighted only") <=> show_only_highlighted
               /\ listed("sorted by length") <=> sort_by_length
               /\ listed("filter") <=> filter_text # <<>>
               /\ \A i \in odd : mode[i].kind = "filter" => mode[i].text = filter_text

\* all three modes are on and at least one prompt is hidden
C12_Witness ==
    /\ show_only_highlighted /\ sort_by_length /\ filter_text # <<>>
    /\ Len(status.mode) = 5
    /\ status.visible > 0
    /\ status.visible < status.total


-----------------------------------------------------------------------------
(* Properties of main *)

\* the process has ended with a non-zero status and no viewer was made
FatalExit == mpc = "exited" /\ exit_code # 0 /\ ViewerNotStarted

\* the entries of ~/.claude/projects that discover_projects keeps
Discoverable ==
    IF fs.root_is_dir THEN {d \in fs.dirs : d # Memory} ELSE {}

\* the name the entry d is shown under: without the home prefix
Shown(d) ==
    IF StartsWith(d, Prefix) THEN SubSeq(d, Len(Prefix) + 1, Len(d)) ELSE d

\* the name given with -p occurs, case ignored, in the display name of d
NameMatches(d) ==
    \E k \in 0..(Len(Shown(d)) - Len(args.project)) :
        \A j \in 1..Len(args.project) :
            LowerCodes(<<Shown(d)[k + j]>>) = LowerCodes(<<args.project[j]>>)

\* the name given with -p is, case ignored, the display name of d
NameEquals(d) == Len(Shown(d)) = Len(args.project) /\ NameMatches(d)

\* C13: main exits with a non-zero status, without ever starting the viewer,
\* when the directory given is not a directory, when no project is
\* discoverable, when the project name matches no project, or when parsing
\* yields no prompt; the viewer is started only after parse_sessions has
\* returned, and only with a non-empty collection.
C13_StartupOrdering ==
    /\ (args.directory # <<>> /\ ~fs.is_dir /\ mpc # "start") => FatalExit
    /\ (args.directory = <<>> /\ Discoverable = {} /\ mpc # "start") => FatalExit
    /\ (args.directory = <<>> /\ args.project # <<>> /\ mpc # "start"
            /\ \A d \in Discoverable : ~NameMatches(d)) => FatalExit
    /\ (ppc = "returned" /\ prompts = <<>>) =>
           /\ ViewerNotStarted
           /\ mpc = "parsing" \/ FatalExit
    /\ (mpc = "running" \/ ~ViewerNotStarted) =>
           /\ ppc = "returned"
           /\ prompts # <<>>
           /\ all_prompts = prompts

\* two files were read to the end, lines were read and none gave a prompt:
\* main has exited with status 1
C13_Witness ==
    /\ mpc = "exited"
    /\ exit_code = 1
    /\ ppc = "returned"
    /\ Len(glob) = 2
    /\ nread >= 2
    /\ prompts = <<>>
    /\ ViewerNotStarted


\* C14: find_project_by_name returns a project only when it is the single
\* project whose display name equals the name given, case ignored, or, no
\* display name being equal, the single project whose display name contains
\* it; when more than one project matches, the candidates are listed and the
\* process exits with a non-zero status; when none matches, no project is
\* returned and main reports that no project was found.
C14_NeverGuesses ==
    (mpc # "start" /\ args.directory = <<>> /\ args.project # <<>>
         /\ Discoverable # {}) =>
        LET exact == {d \in Discoverable : NameEquals(d)}
            containing == {d \in Discoverable : NameMatches(d)}
            ambiguous == Cardinality(exact) > 1
                             \/ (exact = {} /\ Cardinality(containing) > 1)
        IN  /\ history_dir # <<>> =>
                   \/ exact = {history_dir}
                   \/ exact = {} /\ containing = {history_dir}
            /\ ambiguous =>
                   /\ FatalExit
                   /\ printed.what = "Ambiguous project name"
                   /\ {printed.names[i] : i \in 1..Len(printed.names)}
                          = {Shown(d) : d \in containing}
            /\ containing = {} =>
                   /\ FatalExit
                   /\ printed.what = "No project matching found"


\* parse_sessions was called on a directory that cannot be listed, or a session
\* file could not be opened
ReadFailed == (mpc \notin {"start", "choosing", "resolved"} /\ history_dir # <<>>
                   /\ ~fs.readable)
                  \/ io_error

\* C15: an unreadable directory or session file ends startup with a non-zero
\* exit that is not the "no user prompts found" exit: that exit is produced
\* only when the directory and all its session files were read and gave no
\* prompt, and after a read failure the viewer is never started.
C15_ReadFailureIsDistinct ==
    /\ printed.what = "No user prompts found in the history files." =>
           /\ fs.readable
           /\ ~io_error
           /\ fi = Len(fs.sessions) + 1
           /\ prompts = <<>>
    /\ ReadFailed =>
           /\ ViewerNotStarted
           /\ mpc # "running"
           /\ mpc \in {"exited", "crashed"} =>
                  /\ exit_code # 0
                  /\ printed.what # "No user prompts found in the history files."


-----------------------------------------------------------------------------
(* Properties of the rendered view *)

\* C16: if a prompt is focused in the list, the preview pane shows that prompt
\* (session id, char count, highlighted indicator, text); if none is focused,
\* at startup or after the list was rebuilt or became empty, the preview pane
\* shows the placeholder.
C16_PreviewFollowsFocus ==
    /\ lv_index # 0 => preview = ShowPreview(all_prompts[lv_items[lv_index]])
    /\ lv_index = 0 => preview = Placeholder


\* C17: between events the rendered list holds exactly the prompts of
\* get_visible_prompts() for the current filter, sort mode, highlighted-only
\* flag and highlight set, in the same order, each item drawn with the current
\* flag of its prompt, and the visible count of the status line is the number
\* of rendered items.
C17_RenderedListIsCurrent ==
    /\ Len(lv_items) = Len(Visible)
    /\ \A i \in 1..Len(lv_items) :
           /\ all_prompts[lv_items[i]] = Visible[i]
           /\ lv_stars[i] = Visible[i].highlighted
    /\ Len(lv_stars) = Len(lv_items)
    /\ status.visible = Len(lv_items)

\* the sort key was pressed while a filter and highlighted-only were on: the
\* list holds some but not all prompts, and not in collection order
C17_Witness ==
    /\ last.op = "l"
    /\ sort_by_length /\ show_only_highlighted /\ filter_text # <<>>
    /\ Len(lv_items) < Len(all_prompts)
    /\ \E i, j \in 1..Len(lv_items) : i < j /\ lv_items[i] > lv_items[j]


\* what is on screen
Screen == <<search_value, lv_items, lv_index, lv_stars, preview, status>>

\* C18: set-filter replaces filter_text and leaves show_only_highlighted,
\* sort_by_length and every highlighted flag as they were; highlighted-only
\* changes only show_only_highlighted; sort-by-length and sort-natural change
\* only sort_by_length; toggle-highlight flips the flag of the focused prompt
\* and of no other and leaves the three view toggles, and changes nothing at
\* all when no prompt is focused.
C18_MutatorsKeepTheirFrame ==
    [][/\ \A v \in SeqsUpTo(FilterChars, MaxFilterLen) :
              OnSearchChanged(v) =>
                  /\ filter_text' = v
                  /\ UNCHANGED <<show_only_highlighted, sort_by_length>>
                  /\ HighlightFlags' = HighlightFlags
       /\ ActionShowHighlightedOnly =>
              /\ show_only_highlighted' = ~show_only_highlighted
              /\ UNCHANGED <<filter_text, sort_by_length>>
              /\ HighlightFlags' = HighlightFlags
       /\ ActionSortLongest =>
              /\ sort_by_length' = ~sort_by_length
              /\ UNCHANGED <<filter_text, show_only_highlighted>>
              /\ HighlightFlags' = HighlightFlags
       /\ ActionSortNatural =>
              /\ sort_by_length' = FALSE
              /\ UNCHANGED <<filter_text, show_only_highlighted>>
              /\ HighlightFlags' = HighlightFlags
       /\ ActionToggleHighlight =>
              /\ UNCHANGED <<filter_text, show_only_highlighted, sort_by_length>>
              /\ IF lv_index # 0
                 THEN HighlightFlags' =
                          [HighlightFlags EXCEPT ![lv_items[lv_index]] = ~@]
                 ELSE UNCHANGED <<all_prompts, Screen>>]_vars

\* the highlight key was pressed with no prompt focused, while the view was
\* filtered, sorted and restricted to a highlighted prompt
C18_Witness ==
    /\ last.op = "h"
    /\ last.target = 0
    /\ lv_index = 0
    /\ show_only_highlighted /\ sort_by_length /\ filter_text # <<>>
    /\ lv_items # <<>>


\* the prompt the preview pane was drawn from, as it is now
Previewed == all_prompts[CHOOSE i \in 1..Len(all_prompts) : all_prompts[i].index = preview.of]

\* C19: whenever the preview pane shows a prompt, the highlighted indicator
\* and the char count shown are that prompt's current highlighted flag and
\* char_count.
C19_PreviewIsNotStale ==
    preview.shown =>
        /\ \E i \in 1..Len(all_prompts) : all_prompts[i].index = preview.of
        /\ preview.star = Previewed.highlighted
        /\ preview.chars = Previewed.char_count

\* a prompt was highlighted and un-highlighted again, the focus was lost in
\* the rebuild, and the pane still shows that prompt, without the star
C19_Witness ==
    /\ last.op = "h"
    /\ last.twice
    /\ last.target # 0
    /\ lv_index = 0
    /\ preview.shown
    /\ preview.of = all_prompts[last.target].index
    /\ ~preview.star

=============================================================================
